---- MODULE Spec2Model ----
(***************************************************************************)
(* The whiteboard drawing / capture / debounce pipeline of                 *)
(* gemini-build-day.  The repository holds several Whiteboard components;  *)
(* `component` says which one is mounted:                                  *)
(*   "part_007"          src/unnamed/part_007 (vector strokes, pan/zoom)    *)
(*   "part_008"          src/unnamed/part_008:13-253 (raster, idle timer)   *)
(*   "Whiteboard"        src/src/components/Whiteboard.tsx (interval        *)
(*                       frame sampling)                                    *)
(*   "part_009"          src/unnamed/part_009:22-640 (frame per move)       *)
(*   "ProblemWorkspace"  src/src/components/ProblemWorkspace.tsx:659-1583   *)
(*                       (throttled frame per move)                         *)
(* Time is in milliseconds.  Handlers run to completion on the single UI    *)
(* thread, so each handler (with the React effects its state change         *)
(* triggers) is one action.  A timer callback runs when its deadline is     *)
(* reached; other events may still be handled at that instant before it.    *)
(***************************************************************************)
EXTENDS Integers, Sequences, FiniteSets, TLC

VARIABLES
    component,            \* which Whiteboard component is mounted
    now,                  \* Date.now()
    ticks,                \* number of clock advances so far
    isDrawing,            \* isDrawing state / ref
    isGesturing,          \* isGesturing.current
    currentStroke,        \* currentStroke.current: <<>> for null, else <<stroke>>
    strokes,              \* strokes.current: the finished strokes
    transform,            \* transform.current: [x, y, scale]
    lastTouchDistance,    \* lastTouchDistance.current
    lastTouchCenter,      \* lastTouchCenter.current
    touches,              \* how many touches are on the canvas now
    mouseDown,            \* a mouse button is held
    dragStartTime,        \* dragStartTime.current
    idleTimer,            \* idleTimer.current: a timer handle, 0 for null
    frameCaptureInterval, \* frameCaptureInterval.current: handle, 0 for null
    graceTimeout,         \* `timeout` of the isDrawing effect: handle, 0 for none
    timers,               \* the host's pending timers
    lastPoint,            \* lastPoint.current: "null" or "set"
    shouldCapture,        \* shouldCaptureRef.current
    lastCaptureTime,      \* lastCaptureTimeRef.current
    frames,               \* the Frame Buffer
    canvas,               \* the canvas raster
    captured,             \* the image last handed to the tutoring collaborator: <<>> or <<image>>
    obs,                  \* observations of the run (history, not program state)
    video,                \* the video-generation state and refs of the component
    runs,                 \* the generateVideo calls so far, each with its position
    poll,                 \* pollVideoStatus of /api/nano-banana: position and locals
    messages,             \* messages state of Whiteboard.tsx / part_008
    threads,              \* threads state of page.tsx
    requests              \* the /api/solve requests in flight

(* the state of the vector board of part_007 *)
board == <<isGesturing, currentStroke, strokes, transform, lastTouchDistance,
           lastTouchCenter, touches, mouseDown>>

(* the video generation *)
generation == <<video, runs, poll>>

(* the tutoring conversation *)
conversation == <<messages, threads, requests>>

vars == <<component, now, ticks, isDrawing, dragStartTime, idleTimer,
          frameCaptureInterval, graceTimeout, timers, lastPoint,
          shouldCapture, lastCaptureTime,
          frames, canvas, captured, obs, board, generation, conversation>>

----------------------------------------------------------------------------
(* Bounds of the exploration *)

MaxTicks == 5
MaxIdleTicks == 2
MaxFrames == 3
MaxInk == 2
MaxJumps == 1
MaxTouches == 2
MaxPoints == 2
MaxStrokes == 2
MaxZooms == 1
MaxSkips == 1
MaxDowns == 3

(* Program constants *)

CAPTURE_INTERVAL == 500
WhiteboardMinDrag == 500
Part009MinDrag == 1000
ShortIdleDelay == 1000
LongIdleDelay == 2000
SampleEvery == 500
GraceDelay == 2000
Retention == 5 * 60 * 1000

RasterComponents == {"part_008", "Whiteboard", "part_009", "ProblemWorkspace"}
Components == RasterComponents \cup {"part_007"}

(* the page always passes onCapture to the component *)
onCapture == TRUE

----------------------------------------------------------------------------
(* The host's timers *)

UsedIds == {t.id : t \in timers} \cup {idleTimer, frameCaptureInterval, graceTimeout}

(* timer handles are never reused: a fresh one differs from every handle
   still pending or still held in a ref *)
FreshIdNot(more) ==
    CHOOSE i \in 1..(Cardinality(UsedIds \cup more) + 1) : i \notin UsedIds \cup more

FreshId == FreshIdNot({})

setTimeout(ts, id, delay, kind) ==
    ts \cup {[id |-> id, at |-> now + delay, kind |-> kind, stale |-> FALSE,
              closure |-> IF kind = "idle" THEN messages ELSE <<>>]}

clearTimeout(ts, id) == {t \in ts : t.id # id}

Pending(kind) == {t \in timers : t.kind = kind}

Due(t) == t.at <= now

(* a pointer-down arrived while these idle timers were still pending *)
MarkStale(ts) ==
    {IF t.kind = "idle" THEN [t EXCEPT !.stale = TRUE] ELSE t : t \in ts}

----------------------------------------------------------------------------
(* Observations *)

Min(a, b) == IF a < b THEN a ELSE b

ObsInit ==
    [justUp |-> FALSE,      \* the last step was a pointer-up finalizing a stroke
     quiet |-> FALSE,       \* no input since the last such pointer-up
     sinceUp |-> 0,         \* time since that pointer-up, up to LongIdleDelay
     burstCalls |-> 0,      \* capture calls since the burst of strokes began
     preempted |-> FALSE,   \* a pointer-down of this burst found a timer pending
     staleFired |-> FALSE,  \* a timer fired although a pointer-down preceded it
     early |-> FALSE,       \* a capture was made before the pause was over
     evicted |-> FALSE,     \* the last step appended a frame and evicted one
     single |-> FALSE,      \* one pointer only since the last pointer-down
     reported |-> <<>>,     \* what that pointer reported since: down, moves
     zooms |-> 0,           \* gesture moves that zoomed so far
     skips |-> 0,           \* gesture moves that found lastTouchDistance = 0 so far
     gesture |-> <<>>,      \* e.touches of the last gesture move
     downs |-> 0,           \* pointer-downs on the vector board so far
     discarded |-> FALSE,   \* the last pointer-down found a stroke in progress and began a gesture
     lifted |-> FALSE,      \* a gesture ended by a lift, and not all pointers have been up since
     resumed |-> FALSE]     \* since such a lift a touch move drew, or a touch lift added a stroke

(* a pointer-down: it pre-empts the pending idle timer, if any; with none
   pending, a new burst of strokes begins *)
ObsDown ==
    [obs EXCEPT !.justUp = FALSE, !.quiet = FALSE, !.evicted = FALSE,
                !.preempted = Pending("idle") # {},
                !.burstCalls = IF Pending("idle") # {} THEN @ ELSE 0]

(* a pointer-up that finalizes a stroke *)
ObsUp(o) ==
    [o EXCEPT !.justUp = TRUE, !.quiet = TRUE, !.sinceUp = 0, !.evicted = FALSE]

ObsOther(o) == [o EXCEPT !.justUp = FALSE, !.evicted = FALSE]

ObsInput(o) == [o EXCEPT !.justUp = FALSE, !.quiet = FALSE, !.evicted = FALSE]

----------------------------------------------------------------------------
(* Frame Buffer *)

Frame(image, ts) == [imageData |-> image, timestamp |-> ts]

(* setFrames updater: evict what is older than five minutes, then append *)
(* an append that discards nothing *)
AppendUnfiltered(prev, image, ts) == Append(prev, Frame(image, ts))

AppendFrame(prev, image, ts) ==
    LET fiveMinutesAgo == ts - Retention
        keep(f) == f.timestamp > fiveMinutesAgo
    IN  Append(SelectSeq(prev, keep), Frame(image, ts))

Evicted(prev, ts) ==
    LET keep(f) == f.timestamp > ts - Retention
    IN  Len(prev) - Len(SelectSeq(prev, keep))

StartTime == Retention

----------------------------------------------------------------------------
(* Numbers of the vector board: exact rationals <<n, d>> in lowest terms,
   d > 0.  A division by zero gives what the IEEE division gives:
   <<1, 0>> and <<-1, 0>> are the infinities, <<0, 0>> is NaN. *)

Abs(n) == IF n < 0 THEN -n ELSE n

Sgn(n) == IF n > 0 THEN 1 ELSE IF n < 0 THEN -1 ELSE 0

RECURSIVE GCD(_, _)
GCD(a, b) == IF b = 0 THEN a ELSE GCD(b, a % b)

Rat(n, d) ==
    IF d = 0 THEN <<Sgn(n), 0>>
    ELSE LET g == GCD(Abs(n), Abs(d))
         IN  <<Sgn(d) * (n \div g), Abs(d) \div g>>

R(n) == <<n, 1>>

RAdd(a, b) == Rat(a[1] * b[2] + b[1] * a[2], a[2] * b[2])
RSub(a, b) == Rat(a[1] * b[2] - b[1] * a[2], a[2] * b[2])
RMul(a, b) == Rat(a[1] * b[1], a[2] * b[2])
RDiv(a, b) == IF a[2] = 0 THEN <<Sgn(a[1]) * (IF b[1] < 0 THEN -1 ELSE 1), 0>>
              ELSE Rat(a[1] * b[2], a[2] * b[1])
RPos(a) == a[1] > 0

Identity == [x |-> R(0), y |-> R(0), scale |-> R(1)]

(* canvas.getBoundingClientRect() *)
rect == [left |-> 1, top |-> 1]

(* where a pointer can be, in client coordinates: the corners of a 3-4-5
   triangle, so that every distance between two of them is a whole number *)
ClientPoints == {<<1, 1>>, <<4, 1>>, <<1, 5>>}

(* where it can be in the runs that follow the clock *)
TimedPoints == {<<4, 1>>}

(* part_007:119-124 *)
screenToWorld(x, y) ==
    [x |-> RDiv(RSub(x, transform.x), transform.scale),
     y |-> RDiv(RSub(y, transform.y), transform.scale)]

(* the canvas position of a client point, transformed: part_007:189-191,
   205, 232, 257 *)
WorldOf(p) == screenToWorld(R(p[1] - rect.left), R(p[2] - rect.top))

ISqrt(n) == CHOOSE r \in 0..n : r * r = n

(* part_007:126-130 *)
getTouchDistance(t1, t2) ==
    LET dx == t1[1] - t2[1]
        dy == t1[2] - t2[2]
    IN  ISqrt(dx * dx + dy * dy)

(* part_007:132-137 *)
getTouchCenter(t1, t2) ==
    [x |-> Rat(t1[1] + t2[1], 2), y |-> Rat(t1[2] + t2[2], 2)]

color == "#000000"
brushSize == 3

NewStroke(p) == [points |-> <<p>>, color |-> color, size |-> brushSize]

(* part_007:42-91: what the canvas shows after render(): the finished
   strokes and the in-progress stroke that have at least two points, under
   the transform *)
render(finished, current, tr) ==
    LET visible(st) == Len(st.points) >= 2
    IN  [strokes |-> SelectSeq(finished, visible),
         current |-> SelectSeq(current, visible),
         transform |-> tr]

----------------------------------------------------------------------------
(* Mount *)

MountEffects(c) ==
    IF c = "Whiteboard"
    THEN (* isDrawing effect, else branch: Whiteboard.tsx:250-255 *)
         /\ graceTimeout = 1
         /\ timers = {[id |-> 1, at |-> StartTime + GraceDelay, kind |-> "grace",
                       stale |-> FALSE, closure |-> <<>>]}
    ELSE /\ graceTimeout = 0
         /\ timers = {}

(* the video-generation state and refs after construction: part_008:279-301,
   Whiteboard.tsx:25-36, ProblemWorkspace.tsx:667-708 *)
VideoInit ==
    [isGeneratingVideo |-> FALSE,
     videoUrl |-> "null",
     videoProgress |-> 0,
     videoMethod |-> "null",
     showVideoModal |-> FALSE,
     isCancelledRef |-> FALSE,        \* isCancelledRef.current
     abortControllerRef |-> 0,        \* the run whose controller it holds, 0 for null
     gifInstanceRef |-> 0,            \* the run whose encoder it holds, 0 for null
     lastVideoFrameCountRef |-> 0,
     lastVideoFrames |-> <<>>,        \* the frames of the last video made
     alerts |-> 0]                    \* alert() calls so far

(* pollVideoStatus of route.ts before it is called *)
PollInit ==
    [pc |-> "idle",          \* "idle", "fetch", "json", "wait", "returned", "thrown"
     attempt |-> 0,
     maxAttempts |-> 0,
     error |-> "none",       \* what was thrown
     caught |-> "none",      \* the error the catch block holds while it waits
     sent |-> 0,             \* status requests issued so far
     answers |-> <<>>]       \* what the status endpoint reported, per request

(* every state variable but the Frame Buffer, after construction *)
Mounted ==
    /\ component \in Components
    /\ now = StartTime
    /\ ticks = 0
    /\ isDrawing = FALSE
    /\ dragStartTime = 0
    /\ idleTimer = 0
    /\ frameCaptureInterval = 0
    /\ MountEffects(component)
    /\ lastPoint = "null"
    /\ shouldCapture = FALSE
    /\ lastCaptureTime = 0
    /\ canvas = IF component = "part_007" THEN render(<<>>, <<>>, Identity) ELSE 0
    /\ captured = <<>>
    /\ obs = ObsInit
    /\ isGesturing = FALSE
    /\ currentStroke = <<>>
    /\ strokes = <<>>
    /\ transform = Identity
    /\ lastTouchDistance = 0
    /\ lastTouchCenter = [x |-> R(0), y |-> R(0)]
    /\ touches = 0
    /\ mouseDown = FALSE
    /\ video = VideoInit
    /\ runs = <<>>
    /\ poll = PollInit
    /\ messages = <<>>
    /\ threads = <<>>
    /\ requests = {}

Init == Mounted /\ frames = <<>>

----------------------------------------------------------------------------
(* startDrawing *)

(* a pointer-down that leaves the pending idle timer alone *)
KeepIdle(ts) == ts

(* "Clear any pending idle timer because user is interacting again" *)
ClearIdle(ts) == IF idleTimer # 0 THEN clearTimeout(ts, idleTimer) ELSE ts

(* part_008:126-138 *)
startDrawing_P8 ==
    /\ component = "part_008"
    /\ timers' = ClearIdle(MarkStale(timers))
    /\ idleTimer' = 0
    /\ isDrawing' = TRUE
    /\ dragStartTime' = now
    /\ lastPoint' = "set"
    /\ obs' = ObsDown
    /\ UNCHANGED board
    /\ UNCHANGED <<component, now, ticks, frameCaptureInterval, graceTimeout,
                   shouldCapture, lastCaptureTime, frames, canvas, captured>>

(* an isDrawing effect whose startFrameCapture does not look for a running
   interval *)
EffectAlwaysStarting(ts) ==
    LET cleaned == IF graceTimeout # 0 THEN clearTimeout(ts, graceTimeout) ELSE ts
    IN  [timers |-> setTimeout(cleaned, FreshId, SampleEvery, "interval"),
         interval |-> FreshId]

(* the isDrawing effect of Whiteboard.tsx:247-257 when isDrawing becomes
   true: the cleanup of the previous run clears its timeout, then
   startFrameCapture (218-237) starts the interval unless one exists *)
EffectDrawingStarted(ts) ==
    LET cleaned == IF graceTimeout # 0 THEN clearTimeout(ts, graceTimeout) ELSE ts
    IN  IF frameCaptureInterval # 0
        THEN [timers |-> cleaned, interval |-> frameCaptureInterval]
        ELSE [timers |-> setTimeout(cleaned, FreshId, SampleEvery, "interval"),
              interval |-> FreshId]

(* Whiteboard.tsx:140-152 *)
startDrawing_WB ==
    /\ component = "Whiteboard"
    /\ LET cleared == ClearIdle(MarkStale(timers))
           eff == IF isDrawing
                  THEN [timers |-> cleared, interval |-> frameCaptureInterval]
                  ELSE EffectDrawingStarted(cleared)
       IN  /\ timers' = eff.timers
           /\ frameCaptureInterval' = eff.interval
    /\ graceTimeout' = 0
    /\ idleTimer' = 0
    /\ isDrawing' = TRUE
    /\ dragStartTime' = now
    /\ lastPoint' = "set"
    /\ obs' = ObsDown
    /\ UNCHANGED board
    /\ UNCHANGED <<component, now, ticks, shouldCapture,
                   lastCaptureTime, frames, canvas, captured>>

(* part_009:120-135 *)
startDrawing_P9 ==
    /\ component = "part_009"
    /\ timers' = ClearIdle(MarkStale(timers))
    /\ idleTimer' = 0
    /\ isDrawing' = TRUE
    /\ dragStartTime' = now
    /\ lastPoint' = "set"
    /\ shouldCapture' = TRUE
    /\ obs' = ObsDown
    /\ UNCHANGED board
    /\ UNCHANGED <<component, now, ticks, frameCaptureInterval, graceTimeout,
                   lastCaptureTime, frames, canvas, captured>>

(* a startDrawing that forgets the timer without clearing it *)
startDrawingKeepingTimer ==
    /\ component = "ProblemWorkspace"
    /\ timers' = MarkStale(timers)
    /\ idleTimer' = 0
    /\ isDrawing' = TRUE
    /\ dragStartTime' = now
    /\ lastPoint' = "set"
    /\ shouldCapture' = TRUE
    /\ obs' = ObsDown
    /\ UNCHANGED board
    /\ UNCHANGED <<component, now, ticks, frameCaptureInterval, graceTimeout,
                   lastCaptureTime, frames, canvas, captured>>

(* ProblemWorkspace.tsx:774-789 *)
startDrawing_PW ==
    /\ component = "ProblemWorkspace"
    /\ timers' = ClearIdle(MarkStale(timers))
    /\ idleTimer' = 0
    /\ isDrawing' = TRUE
    /\ dragStartTime' = now
    /\ lastPoint' = "set"
    /\ shouldCapture' = TRUE
    /\ obs' = ObsDown
    /\ UNCHANGED board
    /\ UNCHANGED <<component, now, ticks, frameCaptureInterval, graceTimeout,
                   lastCaptureTime, frames, canvas, captured>>

----------------------------------------------------------------------------
(* captureFrame *)

(* part_009:273-289: a frame on every call *)
captureFrame_P9 == AppendFrame(frames, canvas, now)

(* ProblemWorkspace.tsx:927-951: throttled by lastCaptureTimeRef *)
Throttled == now - lastCaptureTime < CAPTURE_INTERVAL

captureFrame_PW == IF Throttled THEN frames ELSE AppendFrame(frames, canvas, now)

NoteEvicted(o, prev, next) ==
    [o EXCEPT !.evicted = next # prev /\ Evicted(prev, now) > 0]

----------------------------------------------------------------------------
(* draw: one segment from lastPoint to the pointer *)

(* part_008:140-154, Whiteboard.tsx:154-168 *)
draw ==
    /\ component \in {"part_008", "Whiteboard"}
    /\ isDrawing /\ lastPoint = "set"
    /\ canvas < MaxInk
    /\ canvas' = canvas + 1
    /\ obs' = ObsInput(obs)
    /\ UNCHANGED board
    /\ UNCHANGED <<component, now, ticks, isDrawing, dragStartTime, idleTimer,
                   frameCaptureInterval, graceTimeout, timers, lastPoint,
                   shouldCapture, lastCaptureTime, frames, captured>>

(* part_009:137-157: the frame is taken after the segment is drawn *)
draw_P9 ==
    /\ component = "part_009"
    /\ isDrawing /\ lastPoint = "set"
    /\ canvas < MaxInk
    /\ canvas' = canvas + 1
    /\ frames' = IF shouldCapture THEN AppendFrame(frames, canvas', now) ELSE frames
    /\ Len(frames') <= MaxFrames
    /\ obs' = NoteEvicted(ObsInput(obs), frames, frames')
    /\ UNCHANGED board
    /\ UNCHANGED <<component, now, ticks, isDrawing, dragStartTime, idleTimer,
                   frameCaptureInterval, graceTimeout, timers, lastPoint,
                   shouldCapture, lastCaptureTime, captured>>

(* ProblemWorkspace.tsx:791-811 *)
draw_PW ==
    /\ component = "ProblemWorkspace"
    /\ isDrawing /\ lastPoint = "set"
    /\ canvas < MaxInk
    /\ canvas' = canvas + 1
    /\ IF shouldCapture /\ ~Throttled
       THEN /\ lastCaptureTime' = now
            /\ frames' = AppendFrame(frames, canvas', now)
       ELSE UNCHANGED <<lastCaptureTime, frames>>
    /\ Len(frames') <= MaxFrames
    /\ obs' = NoteEvicted(ObsInput(obs), frames, frames')
    /\ UNCHANGED board
    /\ UNCHANGED <<component, now, ticks, isDrawing, dragStartTime, idleTimer,
                   frameCaptureInterval, graceTimeout, timers, lastPoint,
                   shouldCapture, captured>>

----------------------------------------------------------------------------
(* stopDrawing *)

dragDuration == now - dragStartTime

(* part_008:156-172: "any stroke triggers the idle timer" *)
stopDrawing_P8 ==
    /\ component = "part_008"
    /\ isDrawing
    /\ isDrawing' = FALSE
    /\ lastPoint' = "null"
    /\ idleTimer' = FreshId
    /\ timers' = setTimeout(timers, FreshId, ShortIdleDelay, "idle")
    /\ obs' = ObsUp(obs)
    /\ UNCHANGED board
    /\ UNCHANGED <<component, now, ticks, dragStartTime, frameCaptureInterval,
                   graceTimeout, shouldCapture, lastCaptureTime, frames, canvas,
                   captured>>

(* Whiteboard.tsx:170-184, then the isDrawing effect (247-257), whose else
   branch starts the 2 s timeout that stops the frame capture *)
stopDrawing_WB ==
    /\ component = "Whiteboard"
    /\ isDrawing
    /\ isDrawing' = FALSE
    /\ lastPoint' = "null"
    /\ LET scheduled == dragDuration > WhiteboardMinDrag
           idle == FreshId
           ts == IF scheduled
                 THEN setTimeout(timers, idle, ShortIdleDelay, "idle")
                 ELSE timers
           grace == IF scheduled THEN FreshIdNot({idle}) ELSE FreshId
       IN  /\ idleTimer' = IF scheduled THEN idle ELSE idleTimer
           /\ graceTimeout' = grace
           /\ timers' = setTimeout(ts, grace, GraceDelay, "grace")
           /\ obs' = ObsUp(obs)
    /\ UNCHANGED board
    /\ UNCHANGED <<component, now, ticks, dragStartTime, frameCaptureInterval,
                   shouldCapture, lastCaptureTime, frames, canvas, captured>>

(* part_009:159-187 *)
stopDrawing_P9 ==
    /\ component = "part_009"
    /\ isDrawing
    /\ isDrawing' = FALSE
    /\ lastPoint' = "null"
    /\ shouldCapture' = FALSE
    /\ frames' = captureFrame_P9
    /\ Len(frames') <= MaxFrames
    /\ LET scheduled == dragDuration > Part009MinDrag /\ onCapture
       IN  /\ idleTimer' = IF scheduled THEN FreshId ELSE idleTimer
           /\ timers' = IF scheduled
                        THEN setTimeout(timers, FreshId, LongIdleDelay, "idle")
                        ELSE timers
           /\ obs' = NoteEvicted(ObsUp(obs), frames, frames')
    /\ UNCHANGED board
    /\ UNCHANGED <<component, now, ticks, dragStartTime, frameCaptureInterval,
                   graceTimeout, lastCaptureTime, canvas, captured>>

(* ProblemWorkspace.tsx:813-839: "regardless of stroke duration" *)
stopDrawing_PW ==
    /\ component = "ProblemWorkspace"
    /\ isDrawing
    /\ isDrawing' = FALSE
    /\ lastPoint' = "null"
    /\ shouldCapture' = FALSE
    /\ frames' = captureFrame_PW
    /\ lastCaptureTime' = IF Throttled THEN lastCaptureTime ELSE now
    /\ Len(frames') <= MaxFrames
    /\ idleTimer' = IF onCapture THEN FreshId ELSE idleTimer
    /\ timers' = IF onCapture
                 THEN setTimeout(timers, FreshId, LongIdleDelay, "idle")
                 ELSE timers
    /\ obs' = NoteEvicted(ObsUp(obs), frames, frames')
    /\ UNCHANGED board
    /\ UNCHANGED <<component, now, ticks, dragStartTime, frameCaptureInterval,
                   graceTimeout, canvas, captured>>

----------------------------------------------------------------------------
(* Timer callbacks *)

IdleDelay ==
    IF component \in {"part_009", "ProblemWorkspace"}
    THEN LongIdleDelay ELSE ShortIdleDelay

(* the tutoring conversation: a capture is sent to /api/solve *)

(* Message: the content is "imageData", "data.text" or "displayMessage" *)
Message(role, content, id) == [role |-> role, content |-> content, id |-> id]

(* captureAndSend up to its await: Whiteboard.tsx:101-120, part_007:145-160,
   part_008:369-384.  The user message is added before the request is sent;
   id is newMessageId, Date.now() *)
SendWithMessage(history) ==
    /\ messages' = Append(messages, Message("user", "imageData", now))
    /\ requests' = requests \cup {[id |-> now, status |-> "pending",
                                   history |-> history]}
    /\ threads' = threads

(* handleCapture up to its await: page.tsx:19-30, ProblemWorkspace.tsx:35-46 *)
handleCapture ==
    /\ requests' = requests \cup {[id |-> now, status |-> "pending",
                                   history |-> <<>>]}
    /\ UNCHANGED <<messages, threads>>

ObsFired(t) ==
    [ObsOther(obs) EXCEPT !.staleFired = @ \/ t.stale,
                          !.burstCalls = @ + 1,
                          !.early = @ \/ obs.sinceUp < IdleDelay]

(* the idle timer of part_008:169-171 / Whiteboard.tsx:180-182 fires:
   captureAndSend (part_008:84-124, Whiteboard.tsx:98-138) sends the canvas *)
captureAndSend ==
    /\ component \in {"part_008", "Whiteboard"}
    /\ \E t \in Pending("idle") :
          /\ Due(t)
          /\ timers' = timers \ {t}
          /\ captured' = <<canvas>>
          /\ obs' = ObsFired(t)
          /\ SendWithMessage(t.closure)
    /\ UNCHANGED board
    /\ UNCHANGED <<component, now, ticks, isDrawing, dragStartTime, idleTimer,
                   frameCaptureInterval, graceTimeout, lastPoint, shouldCapture,
                   lastCaptureTime, frames, canvas>>

(* the idle timer of part_009:177-183 / ProblemWorkspace.tsx:831-837 fires:
   onCapture(canvas.toDataURL()) *)
idleTimerFired ==
    /\ component \in {"part_009", "ProblemWorkspace"}
    /\ \E t \in Pending("idle") :
          /\ Due(t)
          /\ timers' = timers \ {t}
          /\ captured' = <<canvas>>
          /\ obs' = ObsFired(t)
    /\ handleCapture
    /\ UNCHANGED board
    /\ UNCHANGED <<component, now, ticks, isDrawing, dragStartTime, idleTimer,
                   frameCaptureInterval, graceTimeout, lastPoint, shouldCapture,
                   lastCaptureTime, frames, canvas>>

(* one tick of the interval of startFrameCapture, Whiteboard.tsx:221-236 *)
frameCaptureTick ==
    /\ component = "Whiteboard"
    /\ \E t \in Pending("interval") :
          /\ Due(t)
          /\ timers' = (timers \ {t}) \cup {[t EXCEPT !.at = t.at + SampleEvery]}
    /\ frames' = AppendFrame(frames, canvas, now)
    /\ Len(frames') <= MaxFrames
    /\ obs' = NoteEvicted(ObsOther(obs), frames, frames')
    /\ UNCHANGED board
    /\ UNCHANGED <<component, now, ticks, isDrawing, dragStartTime, idleTimer,
                   frameCaptureInterval, graceTimeout, lastPoint, shouldCapture,
                   lastCaptureTime, canvas, captured>>

(* a stopFrameCapture that leaves the interval running *)
keepFrameCapture(ts) == ts

(* stopFrameCapture, Whiteboard.tsx:239-244 *)
stopFrameCapture(ts) ==
    IF frameCaptureInterval # 0 THEN clearTimeout(ts, frameCaptureInterval) ELSE ts

(* the 2 s timeout of the isDrawing effect fires, Whiteboard.tsx:252-254 *)
graceElapsed ==
    /\ component = "Whiteboard"
    /\ \E t \in Pending("grace") :
          /\ Due(t)
          /\ timers' = stopFrameCapture(timers \ {t})
    /\ frameCaptureInterval' = 0
    /\ obs' = ObsOther(obs)
    /\ UNCHANGED board
    /\ UNCHANGED <<component, now, ticks, isDrawing, dragStartTime, idleTimer,
                   graceTimeout, lastPoint, shouldCapture, lastCaptureTime,
                   frames, canvas, captured>>

----------------------------------------------------------------------------
(* clearCanvas: part_008:192-201, Whiteboard.tsx:204-215, part_009:207-222,
   ProblemWorkspace.tsx:859-876 *)
clearCanvas ==
    /\ component \in RasterComponents
    /\ canvas' = 0
    /\ frames' = <<>>
    /\ messages' = IF component \in {"part_008", "Whiteboard"} THEN <<>> ELSE messages
    /\ video' = [video EXCEPT
                    !.videoUrl = "null",
                    !.showVideoModal =
                        IF component = "Whiteboard" THEN @ ELSE FALSE,
                    !.lastVideoFrameCountRef =
                        IF component \in {"part_009", "ProblemWorkspace"} THEN 0 ELSE @]
    /\ obs' = ObsInput(obs)
    /\ UNCHANGED board
    /\ UNCHANGED <<runs, poll, threads, requests>>
    /\ UNCHANGED <<component, now, ticks, isDrawing, dragStartTime, idleTimer,
                   frameCaptureInterval, graceTimeout, timers, lastPoint,
                   shouldCapture, lastCaptureTime, captured>>

----------------------------------------------------------------------------
(* The clock.  It never passes the deadline of a pending timer: the callback
   runs first (possibly after other events handled at the same instant). *)

TickSteps == {CAPTURE_INTERVAL, ShortIdleDelay, Retention - GraceDelay}

(* the boards without frame sampling read the clock for the idle timer
   only: there the clock is followed in steps of the idle delay, and only
   while a timer is pending *)
Untimed == component \in {"part_007", "part_008"}

Jumps == (now - StartTime) \div (Retention - GraceDelay)

Pass(d, max) ==
    /\ IF Untimed
       THEN ticks < MaxIdleTicks /\ d = ShortIdleDelay /\ timers # {}
       ELSE /\ ticks < max
            /\ d # ShortIdleDelay
            /\ d # CAPTURE_INTERVAL => Jumps < MaxJumps /\ frames # <<>>
    /\ \A t \in timers : now + d <= t.at
    /\ now' = now + d
    /\ ticks' = ticks + 1
    /\ obs' = [ObsOther(obs) EXCEPT !.sinceUp = Min(@ + d, LongIdleDelay)]
    /\ UNCHANGED board
    /\ UNCHANGED <<component, isDrawing, dragStartTime, idleTimer,
                   frameCaptureInterval, graceTimeout, timers, lastPoint,
                   shouldCapture, lastCaptureTime, frames, canvas, captured>>

Tick(d) == Pass(d, MaxTicks)

----------------------------------------------------------------------------
(* The vector board, part_007 *)

rasterOnly == <<dragStartTime, frameCaptureInterval, graceTimeout, lastPoint,
                shouldCapture, lastCaptureTime, frames>>

(* part_007:175-178 *)
scheduleCapture(ts) == setTimeout(ClearIdle(ts), FreshId, ShortIdleDelay, "idle")

(* part_007:183-200 *)
handleMouseDown(p) ==
    /\ timers' = ClearIdle(MarkStale(timers))
    /\ isDrawing' = TRUE
    /\ currentStroke' = <<NewStroke(WorldOf(p))>>
    /\ canvas' = render(strokes, currentStroke', transform)
    /\ UNCHANGED <<idleTimer, isGesturing, strokes, transform,
                   lastTouchDistance, lastTouchCenter, captured>>

(* a mousemove handler that drops the point *)
ignoreMouseMove(p) ==
    UNCHANGED <<timers, idleTimer, isDrawing, isGesturing, currentStroke,
                strokes, transform, lastTouchDistance, lastTouchCenter,
                canvas, captured>>

(* part_007:202-209 *)
handleMouseMove(p) ==
    IF ~isDrawing \/ currentStroke = <<>>
    THEN UNCHANGED <<timers, idleTimer, isDrawing, isGesturing, currentStroke,
                     strokes, transform, lastTouchDistance, lastTouchCenter,
                     canvas, captured>>
    ELSE /\ Len(currentStroke[1].points) < MaxPoints
         /\ currentStroke' = <<[currentStroke[1] EXCEPT
                                  !.points = Append(@, WorldOf(p))]>>
         /\ canvas' = render(strokes, currentStroke', transform)
         /\ UNCHANGED <<timers, idleTimer, isDrawing, isGesturing, strokes,
                        transform, lastTouchDistance, lastTouchCenter, captured>>

(* a mouseup handler that keeps the new stroke only *)
mouseUpReplacing ==
    IF isDrawing /\ currentStroke # <<>>
    THEN /\ Len(strokes) < MaxStrokes
         /\ isDrawing' = FALSE
         /\ strokes' = <<currentStroke[1]>>
         /\ currentStroke' = <<>>
         /\ canvas' = render(strokes', currentStroke', transform)
         /\ timers' = scheduleCapture(timers)
         /\ idleTimer' = FreshId
         /\ UNCHANGED <<isGesturing, transform, lastTouchDistance,
                        lastTouchCenter, captured>>
    ELSE UNCHANGED <<timers, idleTimer, isDrawing, isGesturing, currentStroke,
                     strokes, transform, lastTouchDistance, lastTouchCenter,
                     canvas, captured>>

(* part_007:211-219 *)
handleMouseUp ==
    IF isDrawing /\ currentStroke # <<>>
    THEN /\ Len(strokes) < MaxStrokes
         /\ isDrawing' = FALSE
         /\ strokes' = Append(strokes, currentStroke[1])
         /\ currentStroke' = <<>>
         /\ canvas' = render(strokes', currentStroke', transform)
         /\ timers' = scheduleCapture(timers)
         /\ idleTimer' = FreshId
         /\ UNCHANGED <<isGesturing, transform, lastTouchDistance,
                        lastTouchCenter, captured>>
    ELSE UNCHANGED <<timers, idleTimer, isDrawing, isGesturing, currentStroke,
                     strokes, transform, lastTouchDistance, lastTouchCenter,
                     canvas, captured>>

(* a touchstart handler that finalizes the stroke in progress when the
   gesture begins *)
touchStartFinalizing(e) ==
    /\ timers' = ClearIdle(MarkStale(timers))
    /\ isDrawing' = (Len(e) = 1)
    /\ isGesturing' = (Len(e) = 2)
    /\ currentStroke' = IF Len(e) = 1 THEN <<NewStroke(WorldOf(e[1]))>> ELSE <<>>
    /\ strokes' = IF Len(e) = 2 THEN strokes \o currentStroke ELSE strokes
    /\ lastTouchDistance' = IF Len(e) = 2 THEN getTouchDistance(e[1], e[2])
                            ELSE lastTouchDistance
    /\ UNCHANGED <<idleTimer, transform, lastTouchCenter, canvas, captured>>

(* part_007:222-248; e is e.touches *)
handleTouchStart(e) ==
    /\ timers' = ClearIdle(MarkStale(timers))
    /\ IF Len(e) = 1
       THEN /\ isDrawing' = TRUE
            /\ isGesturing' = FALSE
            /\ currentStroke' = <<NewStroke(WorldOf(e[1]))>>
            /\ UNCHANGED <<lastTouchDistance, lastTouchCenter>>
       ELSE IF Len(e) = 2
       THEN /\ isDrawing' = FALSE
            /\ currentStroke' = <<>>
            /\ isGesturing' = TRUE
            /\ lastTouchDistance' = getTouchDistance(e[1], e[2])
            /\ LET center == getTouchCenter(e[1], e[2])
               IN  lastTouchCenter' = [x |-> RSub(center.x, R(rect.left)),
                                       y |-> RSub(center.y, R(rect.top))]
       ELSE UNCHANGED <<isDrawing, isGesturing, currentStroke,
                        lastTouchDistance, lastTouchCenter>>
    /\ UNCHANGED <<idleTimer, strokes, transform, canvas, captured>>

(* a pan and zoom without the test of lastTouchDistance *)
GestureUnguarded(e) ==
    LET dist == getTouchDistance(e[1], e[2])
        centerRaw == getTouchCenter(e[1], e[2])
        center == [x |-> RSub(centerRaw.x, R(rect.left)),
                   y |-> RSub(centerRaw.y, R(rect.top))]
        scaleFactor == Rat(dist, lastTouchDistance)
    IN  [transform |->
            [x |-> RSub(center.x, RMul(RSub(lastTouchCenter.x, transform.x), scaleFactor)),
             y |-> RSub(center.y, RMul(RSub(lastTouchCenter.y, transform.y), scaleFactor)),
             scale |-> RMul(transform.scale, scaleFactor)],
         dist |-> dist,
         center |-> center]

(* the pan and zoom of part_007:262-299 *)
Gesture(e) ==
    LET dist == getTouchDistance(e[1], e[2])
        centerRaw == getTouchCenter(e[1], e[2])
        center == [x |-> RSub(centerRaw.x, R(rect.left)),
                   y |-> RSub(centerRaw.y, R(rect.top))]
        dx == RSub(center.x, lastTouchCenter.x)
        dy == RSub(center.y, lastTouchCenter.y)
        panned == [transform EXCEPT !.x = RAdd(@, dx), !.y = RAdd(@, dy)]
        scaleFactor == Rat(dist, lastTouchDistance)
        zoomed == [x |-> RSub(center.x, RMul(RSub(center.x, panned.x), scaleFactor)),
                   y |-> RSub(center.y, RMul(RSub(center.y, panned.y), scaleFactor)),
                   scale |-> RMul(panned.scale, scaleFactor)]
    IN  [transform |-> IF lastTouchDistance > 0 THEN zoomed ELSE panned,
         dist |-> dist,
         center |-> center]

(* part_007:250-303 *)
handleTouchMove(e) ==
    IF isDrawing /\ Len(e) = 1
    THEN /\ IF currentStroke # <<>>
            THEN /\ Len(currentStroke[1].points) < MaxPoints
                 /\ currentStroke' = <<[currentStroke[1] EXCEPT
                                          !.points = Append(@, WorldOf(e[1]))]>>
            ELSE UNCHANGED currentStroke
         /\ canvas' = render(strokes, currentStroke', transform)
         /\ UNCHANGED <<timers, idleTimer, isDrawing, isGesturing, strokes,
                        transform, lastTouchDistance, lastTouchCenter, captured>>
    ELSE IF isGesturing /\ Len(e) = 2
    THEN /\ IF lastTouchDistance > 0
            THEN obs.zooms < MaxZooms ELSE obs.skips < MaxSkips
         /\ transform' = Gesture(e).transform
         /\ lastTouchDistance' = Gesture(e).dist
         /\ lastTouchCenter' = Gesture(e).center
         /\ canvas' = render(strokes, currentStroke, transform')
         /\ UNCHANGED <<timers, idleTimer, isDrawing, isGesturing,
                        currentStroke, strokes, captured>>
    ELSE UNCHANGED <<timers, idleTimer, isDrawing, isGesturing, currentStroke,
                     strokes, transform, lastTouchDistance, lastTouchCenter,
                     canvas, captured>>

(* part_007:305-320; n is e.touches.length *)
handleTouchEnd(n) ==
    IF isDrawing /\ n = 0
    THEN /\ isDrawing' = FALSE
         /\ IF currentStroke # <<>>
            THEN /\ Len(strokes) < MaxStrokes
                 /\ strokes' = Append(strokes, currentStroke[1])
                 /\ currentStroke' = <<>>
            ELSE UNCHANGED <<strokes, currentStroke>>
         /\ canvas' = render(strokes', currentStroke', transform)
         /\ timers' = scheduleCapture(timers)
         /\ idleTimer' = FreshId
         /\ UNCHANGED <<isGesturing, transform, lastTouchDistance,
                        lastTouchCenter, captured>>
    ELSE IF isGesturing /\ n < 2
    THEN /\ isGesturing' = FALSE
         /\ UNCHANGED <<timers, idleTimer, isDrawing, currentStroke, strokes,
                        transform, lastTouchDistance, lastTouchCenter, canvas,
                        captured>>
    ELSE UNCHANGED <<timers, idleTimer, isDrawing, isGesturing, currentStroke,
                     strokes, transform, lastTouchDistance, lastTouchCenter,
                     canvas, captured>>

(* a clearCanvas that also resets the view *)
clearCanvasResettingView ==
    /\ component = "part_007"
    /\ strokes' = <<>>
    /\ transform' = Identity
    /\ canvas' = render(strokes', currentStroke, transform')
    /\ messages' = <<>>
    /\ UNCHANGED <<generation, threads, requests>>
    /\ obs' = ObsInput(obs)
    /\ UNCHANGED <<component, now, ticks, rasterOnly, timers, idleTimer,
                   isDrawing, isGesturing, currentStroke, lastTouchDistance,
                   lastTouchCenter, touches, mouseDown, captured>>

(* part_007:322-328 *)
clearCanvas_P7 ==
    /\ component = "part_007"
    /\ strokes' = <<>>
    /\ canvas' = render(strokes', currentStroke, transform)
    /\ messages' = <<>>
    /\ UNCHANGED <<generation, threads, requests>>
    /\ obs' = ObsInput(obs)
    /\ UNCHANGED <<component, now, ticks, rasterOnly, timers, idleTimer,
                   isDrawing, isGesturing, currentStroke, transform,
                   lastTouchDistance, lastTouchCenter, touches, mouseDown, captured>>

(* the idle timer of part_007:177 fires: captureAndSend, part_007:141-173 *)
captureAndSend_P7 ==
    /\ component = "part_007"
    /\ \E t \in Pending("idle") :
          /\ Due(t)
          /\ timers' = timers \ {t}
          /\ captured' = <<canvas>>
          /\ obs' = ObsFired(t)
          /\ SendWithMessage(t.closure)
    /\ UNCHANGED <<component, now, ticks, rasterOnly, idleTimer, isDrawing,
                   canvas, board>>

(* The pointer events of the host *)

NoPointer == touches = 0 /\ ~mouseDown

ObsPointerDown(p) ==
    [ObsDown EXCEPT !.downs = @ + 1,
                    !.discarded = FALSE,
                    !.lifted = IF NoPointer THEN FALSE ELSE @,
                    !.single = NoPointer,
                    !.reported = IF NoPointer THEN <<p>> ELSE <<>>]

ObsPointerMove(p) ==
    [ObsInput(obs) EXCEPT
        !.reported = IF obs.single /\ ~NoPointer THEN Append(@, p) ELSE @]

(* the mouse moves with no button held: one more pointer over the canvas *)
ObsHover == [ObsInput(obs) EXCEPT !.single = FALSE, !.reported = <<>>]

(* a stroke was finalized by this step, or the pointer just went up *)
ObsPointerUp ==
    IF strokes' # strokes \/ (isDrawing /\ ~isDrawing')
    THEN ObsUp(obs)
    ELSE [ObsInput(obs) EXCEPT !.single = FALSE, !.reported = <<>>]

MouseDown(P) ==
    /\ component = "part_007"
    /\ ~mouseDown
    /\ obs.downs < MaxDowns
    /\ mouseDown' = TRUE
    /\ \E p \in P :
          /\ handleMouseDown(p)
          /\ obs' = ObsPointerDown(p)
    /\ UNCHANGED <<component, now, ticks, rasterOnly, touches>>

MouseMove(P) ==
    /\ component = "part_007"
    /\ \E p \in P :
          /\ handleMouseMove(p)
          /\ obs' = IF mouseDown THEN ObsPointerMove(p) ELSE ObsHover
    /\ UNCHANGED <<component, now, ticks, rasterOnly, touches, mouseDown>>

(* mouseup and mouseleave, part_007:341-342 *)
MouseUp ==
    /\ component = "part_007"
    /\ mouseDown' = FALSE
    /\ handleMouseUp
    /\ obs' = IF mouseDown THEN ObsPointerUp
              ELSE [ObsPointerUp EXCEPT !.single = FALSE, !.reported = <<>>]
    /\ UNCHANGED <<component, now, ticks, rasterOnly, touches>>

(* touchstart: e.touches lists the fingers already down, wherever they
   are now, and the new one last *)
TouchStart(P) ==
    /\ component = "part_007"
    /\ touches < MaxTouches
    /\ obs.downs < MaxDowns
    /\ touches' = touches + 1
    /\ \E e \in [1..touches' -> P] :
          /\ handleTouchStart(e)
          /\ obs' = [ObsPointerDown(e[touches']) EXCEPT
                       !.discarded = isDrawing /\ currentStroke # <<>> /\ Len(e) = 2]
    /\ UNCHANGED <<component, now, ticks, rasterOnly, mouseDown>>

TouchMove(P) ==
    /\ component = "part_007"
    /\ touches > 0
    /\ \E e \in [1..touches -> P] :
          /\ handleTouchMove(e)
          /\ obs' = [ObsPointerMove(e[1]) EXCEPT
                       !.zooms = IF isGesturing /\ Len(e) = 2 /\ lastTouchDistance > 0
                                 THEN @ + 1 ELSE @,
                       !.skips = IF isGesturing /\ Len(e) = 2 /\ lastTouchDistance = 0
                                 THEN @ + 1 ELSE @,
                       !.gesture = IF isGesturing /\ Len(e) = 2 THEN e ELSE @,
                       !.resumed = @ \/ (obs.lifted /\ currentStroke' # currentStroke)]
    /\ UNCHANGED <<component, now, ticks, rasterOnly, touches, mouseDown>>

(* touchend and touchcancel, part_007:345-346 *)
TouchEnd ==
    /\ component = "part_007"
    /\ touches > 0
    /\ touches' = touches - 1
    /\ handleTouchEnd(touches')
    /\ obs' = [ObsPointerUp EXCEPT
                 !.lifted = @ \/ (isGesturing /\ ~isGesturing' /\ touches' = 1),
                 !.resumed = @ \/ (obs.lifted /\ strokes' # strokes)]
    /\ UNCHANGED <<component, now, ticks, rasterOnly, mouseDown>>

(* what the drawing actions leave alone *)
still == <<generation, conversation>>

(* All the boards, with the clock *)
Next ==
    \/ MouseDown(TimedPoints) /\ UNCHANGED still
    \/ MouseMove(TimedPoints) /\ UNCHANGED still
    \/ MouseUp /\ UNCHANGED still
    \/ TouchStart(TimedPoints) /\ UNCHANGED still
    \/ TouchMove(TimedPoints) /\ UNCHANGED still
    \/ TouchEnd /\ UNCHANGED still
    \/ clearCanvas_P7
    \/ captureAndSend_P7 /\ UNCHANGED generation
    \/ startDrawing_P8 /\ UNCHANGED still
    \/ startDrawing_WB /\ UNCHANGED still
    \/ startDrawing_P9 /\ UNCHANGED still
    \/ startDrawing_PW /\ UNCHANGED still
    \/ draw /\ UNCHANGED still
    \/ draw_P9 /\ UNCHANGED still
    \/ draw_PW /\ UNCHANGED still
    \/ stopDrawing_P8 /\ UNCHANGED still
    \/ stopDrawing_WB /\ UNCHANGED still
    \/ stopDrawing_P9 /\ UNCHANGED still
    \/ stopDrawing_PW /\ UNCHANGED still
    \/ captureAndSend /\ UNCHANGED generation
    \/ idleTimerFired /\ UNCHANGED generation
    \/ frameCaptureTick /\ UNCHANGED still
    \/ graceElapsed /\ UNCHANGED still
    \/ clearCanvas
    \/ \E d \in TickSteps : Tick(d) /\ UNCHANGED still

Spec == Init /\ [][Next]_vars

(* The vector board of part_007 under every pointer event, the clock
   standing still *)
InitBoard == Init /\ component = "part_007"

NextBoard ==
    \/ MouseDown(ClientPoints) /\ UNCHANGED still
    \/ MouseMove(ClientPoints) /\ UNCHANGED still
    \/ MouseUp /\ UNCHANGED still
    \/ TouchStart(ClientPoints) /\ UNCHANGED still
    \/ TouchMove(ClientPoints) /\ UNCHANGED still
    \/ TouchEnd /\ UNCHANGED still
    \/ clearCanvas_P7

SpecBoard == InitBoard /\ [][NextBoard]_vars

----------------------------------------------------------------------------
(* Video generation: generateVideo and cancelVideoGeneration of part_008,
   Whiteboard.tsx and ProblemWorkspace.tsx.  A call of generateVideo is a run:
   runs[r] holds the place where run r waits (pc), what its closure holds,
   and what happened to it.  The clock stands still here: a pending timer
   may fire at any step. *)

VideoComponents == {"part_008", "Whiteboard", "ProblemWorkspace"}

MaxRuns == 2

(* a sequence for the encoder that lacks the final frame *)
framesOnly == frames

(* allFrames of a run: the Frame Buffer, then the current canvas as the final
   frame: ProblemWorkspace.tsx:1203-1204, Whiteboard.tsx:301-302,
   part_008:735-736 *)
allFrames == Append(frames, Frame(canvas, now))

allFramesLength == Len(allFrames)

NewRun(place) ==
    [pc |-> place,                 \* "fetch", "blob", "json", "import", "gifLoad",
                                   \* "render", "loading", "waiting", "stopping", "done"
     resp |-> "none",              \* what the response of the request is
     i |-> 0,                      \* the frame the replay loop is at
     total |-> allFramesLength,    \* allFrames.length
     allFrames |-> IF place = "done" THEN <<>> ELSE allFrames,
                                   \* what the run hands to the encoder
     toLoad |-> 0,                 \* images of the encoder still loading
     loadedCount |-> 0,
     progressInterval |-> 0,       \* handle of the progress interval, 0 for none
     isGeneratingVideo |-> video.isGeneratingVideo,  \* the state the closure saw
     cancelled |-> FALSE,          \* cancelVideoGeneration was called during the run
     alerted |-> FALSE,            \* the run showed an alert
     published |-> FALSE]          \* the run set videoUrl

RunIds == {runs[r].progressInterval : r \in DOMAIN runs}

InFlight(r) == runs[r].pc # "done"

(* the run returns *)
Return(r, rs) == [rs EXCEPT ![r].pc = "done"]

(* the run returns having set videoUrl *)
Published(r, rs) == [rs EXCEPT ![r].pc = "done", ![r].published = TRUE]

(* the finally block: part_008:834-838, Whiteboard.tsx:472-476 *)
Finally(v) == [v EXCEPT !.abortControllerRef = 0, !.gifInstanceRef = 0]

(* setIsGeneratingVideo(false); setVideoProgress(0); setVideoMethod(null) *)
SetIdle(v) ==
    [v EXCEPT !.isGeneratingVideo = FALSE, !.videoProgress = 0,
              !.videoMethod = "null"]

(* the outer catch of part_008:814-833 and Whiteboard.tsx:461-471, the error
   being neither an AbortError nor "Cancelled" *)
OuterCatch(r) ==
    IF video.isCancelledRef
    THEN /\ video' = Finally(video)
         /\ runs' = Return(r, runs)
    ELSE /\ video' = Finally([SetIdle(video) EXCEPT !.alerts = @ + 1])
         /\ runs' = [Return(r, runs) EXCEPT ![r].alerted = TRUE]

(* the run returns from inside the try: only the finally block runs *)
Returns(r) ==
    /\ video' = Finally(video)
    /\ runs' = Return(r, runs)

(* the request of run r, or the reading of its body, is aborted by
   abortControllerRef.current.abort(): the rejection is handled before any
   other event, and every such path returns: part_008:803-812 and 814-819,
   Whiteboard.tsx:356-361 and 461-466 *)
Aborted(r) ==
    r = video.abortControllerRef /\ runs[r].pc \in {"fetch", "blob", "json"}

(* the first k runs once cancelVideoGeneration was called: the runs still
   going on have been cancelled, and the aborted one has returned *)
RECURSIVE Marked(_)
Marked(k) ==
    IF k = 0 THEN <<>>
    ELSE Append(Marked(k - 1),
                IF InFlight(k)
                THEN [runs[k] EXCEPT !.cancelled = TRUE,
                                     !.pc = IF Aborted(k) THEN "done" ELSE @]
                ELSE runs[k])

(* what a video action leaves alone besides the timers *)
notVideo == <<component, now, ticks, isDrawing, dragStartTime, idleTimer,
              frameCaptureInterval, graceTimeout, lastPoint,
              shouldCapture, lastCaptureTime, frames, canvas, captured,
              obs, board, conversation, poll>>

(* part_008:665-687, Whiteboard.tsx:266-286, ProblemWorkspace.tsx:996-1018;
   the button shows while isGeneratingVideo, and the unmount cleanup checks it *)
cancelVideoGeneration ==
    /\ component \in VideoComponents
    /\ video.isGeneratingVideo
    /\ LET reset == [video EXCEPT !.isCancelledRef = TRUE,
                                 !.abortControllerRef = 0,
                                 !.gifInstanceRef = 0,
                                 !.isGeneratingVideo = FALSE]
       IN  video' = IF component = "Whiteboard" THEN reset ELSE SetIdle(reset)
    /\ runs' = Marked(Len(runs))
    /\ UNCHANGED <<notVideo, timers>>

(* ---- ProblemWorkspace.tsx:1183-1278 ---- *)

(* Math.round(30 + (i / allFrames.length) * 60) *)
ReplayProgress(i, n) == (2 * (30 * n + 60 * i) + n) \div (2 * n)

(* the button is disabled without new frames (ProblemWorkspace.tsx:1344);
   ok: the temporary canvas gave a context and the recorder was made *)
NoNewDrawing == Len(frames) <= video.lastVideoFrameCountRef

generateVideo_PW ==
    /\ component = "ProblemWorkspace"
    /\ ~video.isGeneratingVideo
    /\ Len(runs) < MaxRuns
    /\ Len(frames) > 0 /\ ~NoNewDrawing
    /\ \E ok \in BOOLEAN :
          LET started == [video EXCEPT !.isGeneratingVideo = TRUE,
                                       !.videoUrl = "null",
                                       !.videoMethod = "media-recorder",
                                       !.isCancelledRef = FALSE]
          IN  IF ok
              THEN /\ video' = [started EXCEPT !.videoProgress = 30]
                   /\ runs' = Append(runs, NewRun("loading"))
              ELSE /\ video' = [SetIdle(started) EXCEPT !.alerts = @ + 1]
                   /\ runs' = Append(runs, [NewRun("done") EXCEPT !.alerted = TRUE])
    /\ UNCHANGED <<notVideo, timers>>

(* the replay loop goes on after frame i: ProblemWorkspace.tsx:1249-1269 *)
NextFrame(r) ==
    IF runs[r].i + 1 < runs[r].total
    THEN IF video.isCancelledRef
         THEN /\ runs' = [runs EXCEPT ![r].pc = "stopping"]
              /\ video' = video
         ELSE /\ runs' = [runs EXCEPT ![r].pc = "loading", ![r].i = @ + 1]
              /\ video' = video
    ELSE /\ runs' = [runs EXCEPT ![r].pc = "stopping"]
         /\ video' = [video EXCEPT !.videoProgress = 90]

(* img.onload: ProblemWorkspace.tsx:1257-1261 *)
frameLoaded_PW ==
    /\ component = "ProblemWorkspace"
    /\ \E r \in DOMAIN runs :
          /\ runs[r].pc = "loading"
          /\ video' = [video EXCEPT
                         !.videoProgress = ReplayProgress(runs[r].i, runs[r].total)]
          /\ LET id == FreshIdNot(RunIds)
             IN  /\ timers' = setTimeout(timers, id, 100, "frame")
                 /\ runs' = [runs EXCEPT ![r].pc = "waiting"]
    /\ UNCHANGED notVideo

(* img.onerror: ProblemWorkspace.tsx:1262 *)
frameFailed_PW ==
    /\ component = "ProblemWorkspace"
    /\ \E r \in DOMAIN runs :
          /\ runs[r].pc = "loading"
          /\ NextFrame(r)
    /\ UNCHANGED <<notVideo, timers>>

(* setTimeout(resolve, frameDuration) fires *)
frameShown_PW ==
    /\ component = "ProblemWorkspace"
    /\ \E r \in DOMAIN runs, t \in Pending("frame") :
          /\ runs[r].pc = "waiting"
          /\ timers' = timers \ {t}
          /\ NextFrame(r)
    /\ UNCHANGED notVideo

(* mediaRecorder.onstop: ProblemWorkspace.tsx:1230-1241 *)
onstop(r) ==
    [video EXCEPT !.videoUrl = "url", !.videoProgress = 100,
                  !.isGeneratingVideo = FALSE, !.videoMethod = "null",
                  !.lastVideoFrameCountRef = runs[r].total - 1,
                  !.lastVideoFrames =
                      SubSeq(runs[r].allFrames, 1, runs[r].total - 1),
                  !.showVideoModal = TRUE]

recorderStopped_PW ==
    /\ component = "ProblemWorkspace"
    /\ \E r \in DOMAIN runs :
          /\ runs[r].pc = "stopping"
          /\ video' = onstop(r)
          /\ runs' = Published(r, runs)
    /\ UNCHANGED <<notVideo, timers>>

(* ---- Whiteboard.tsx:288-477 ---- *)

(* what /api/nano-banana may answer: a video, an error that names the
   missing configuration, another error; or the request fails *)
Answers == {"video", "config", "error", "network"}

(* Whiteboard.tsx:288-320, up to the await of fetch *)
generateVideo_WB ==
    /\ component = "Whiteboard"
    /\ ~video.isGeneratingVideo
    /\ Len(runs) < MaxRuns
    /\ IF frames = <<>>
       THEN /\ video' = [video EXCEPT !.alerts = @ + 1]
            /\ runs' = Append(runs, [NewRun("done") EXCEPT !.alerted = TRUE])
       ELSE /\ video' = [video EXCEPT !.isGeneratingVideo = TRUE,
                                      !.videoUrl = "null",
                                      !.isCancelledRef = FALSE,
                                      !.abortControllerRef = Len(runs) + 1,
                                      !.gifInstanceRef = 0]
            /\ runs' = Append(runs, NewRun("fetch"))
    /\ UNCHANGED <<notVideo, timers>>

(* the run goes on to the client-side fallback: Whiteboard.tsx:374-380 *)
Fallback(r) ==
    IF video.isCancelledRef
    THEN Returns(r)
    ELSE /\ runs' = [runs EXCEPT ![r].pc = "import"]
         /\ video' = video

(* the fetch of a run that was not aborted settles: Whiteboard.tsx:311-326,
   356-372 *)
fetchSettled_WB ==
    /\ component = "Whiteboard"
    /\ \E r \in DOMAIN runs, answer \in Answers :
          /\ runs[r].pc = "fetch"
          /\ IF answer = "network"
             THEN Fallback(r)
             ELSE IF video.isCancelledRef
                  THEN Returns(r)
                  ELSE /\ runs' = [runs EXCEPT
                                     ![r].pc = IF answer = "video" THEN "blob" ELSE "json",
                                     ![r].resp = answer]
                       /\ video' = video
    /\ UNCHANGED <<notVideo, timers>>

(* response.blob() settles: Whiteboard.tsx:328-340 *)
blobSettled_WB ==
    /\ component = "Whiteboard"
    /\ \E r \in DOMAIN runs, ok \in BOOLEAN :
          /\ runs[r].pc = "blob"
          /\ IF ~ok
             THEN Fallback(r)
             ELSE IF video.isCancelledRef
                  THEN Returns(r)
                  ELSE /\ video' = Finally([video EXCEPT !.videoUrl = "url",
                                                         !.isGeneratingVideo = FALSE])
                       /\ runs' = Published(r, runs)
    /\ UNCHANGED <<notVideo, timers>>

(* response.json() settles, a body that does not parse giving null:
   Whiteboard.tsx:343-372 *)
jsonSettled_WB ==
    /\ component = "Whiteboard"
    /\ \E r \in DOMAIN runs, parsed \in BOOLEAN :
          /\ runs[r].pc = "json"
          /\ IF parsed /\ runs[r].resp = "config"
             THEN OuterCatch(r)
             ELSE Fallback(r)
    /\ UNCHANGED <<notVideo, timers>>

(* import("gif.js") settles: Whiteboard.tsx:380-388, and the executor of
   gifPromise starts the loading of the frames, 412-443 *)
importSettled_WB ==
    /\ component = "Whiteboard"
    /\ \E r \in DOMAIN runs, ok \in BOOLEAN :
          /\ runs[r].pc = "import"
          /\ IF ok
             THEN /\ video' = [video EXCEPT !.gifInstanceRef = r]
                  /\ runs' = [runs EXCEPT
                                ![r].pc = "gifLoad",
                                ![r].toLoad = IF video.isCancelledRef THEN 0
                                              ELSE runs[r].total]
             ELSE OuterCatch(r)
    /\ UNCHANGED <<notVideo, timers>>

(* img.onload of a frame of the encoder: Whiteboard.tsx:419-427 *)
gifFrameLoaded_WB ==
    /\ component = "Whiteboard"
    /\ \E r \in DOMAIN runs :
          /\ runs[r].pc = "gifLoad" /\ runs[r].toLoad > 0
          /\ IF video.isCancelledRef
             THEN runs' = [runs EXCEPT ![r].toLoad = @ - 1]
             ELSE runs' = [runs EXCEPT
                             ![r].toLoad = @ - 1,
                             ![r].loadedCount = @ + 1,
                             ![r].pc = IF runs[r].loadedCount + 1 = runs[r].total
                                       THEN "render" ELSE "gifLoad"]
          /\ video' = video
    /\ UNCHANGED <<notVideo, timers>>

(* img.onerror of a frame of the encoder: Whiteboard.tsx:428-440;
   throws: gif.render() throws *)
gifFrameFailed_WB ==
    /\ component = "Whiteboard"
    /\ \E r \in DOMAIN runs, throws \in BOOLEAN :
          /\ runs[r].pc = "gifLoad" /\ runs[r].toLoad > 0
          /\ LET counted == [runs EXCEPT ![r].toLoad = @ - 1,
                                         ![r].loadedCount = @ + 1]
             IN  IF runs[r].loadedCount + 1 = runs[r].total /\ ~video.isCancelledRef
                 THEN IF throws
                      THEN /\ video' = Finally([SetIdle(video) EXCEPT !.alerts = @ + 1])
                           /\ runs' = [Return(r, counted) EXCEPT ![r].alerted = TRUE]
                      ELSE /\ runs' = [counted EXCEPT ![r].pc = "render"]
                           /\ video' = video
                 ELSE /\ runs' = counted
                      /\ video' = video
    /\ UNCHANGED <<notVideo, timers>>

(* gif.on("progress"): Whiteboard.tsx:403-405, the rejection caught at 461-466 *)
gifProgress_WB ==
    /\ component = "Whiteboard"
    /\ \E r \in DOMAIN runs :
          /\ runs[r].pc = "render"
          /\ IF video.isCancelledRef
             THEN Returns(r)
             ELSE UNCHANGED <<video, runs>>
    /\ UNCHANGED <<notVideo, timers>>

(* gif.on("finished"): Whiteboard.tsx:397-402, 446-459 *)
gifFinished_WB ==
    /\ component = "Whiteboard"
    /\ \E r \in DOMAIN runs :
          /\ runs[r].pc = "render"
          /\ IF video.isCancelledRef
             THEN Returns(r)
             ELSE /\ video' = Finally([video EXCEPT !.videoUrl = "url",
                                                    !.isGeneratingVideo = FALSE])
                  /\ runs' = Published(r, runs)
    /\ UNCHANGED <<notVideo, timers>>

(* ---- part_008:689-839 ---- *)

(* setVideoProgress updater of the progress interval: part_008:746-752 *)
Simulated(prev) == IF prev < 80 THEN Min(80, prev + 3) ELSE prev

(* part_008:689-764, up to the await of fetch;
   recorded: recordedChunksRef holds chunks and no recording is going on *)
generateVideo_P8 ==
    /\ component = "part_008"
    /\ ~video.isGeneratingVideo
    /\ Len(runs) < MaxRuns
    /\ \E recorded \in BOOLEAN :
          LET started == [video EXCEPT !.isGeneratingVideo = TRUE,
                                       !.videoUrl = "null",
                                       !.videoProgress = 0,
                                       !.videoMethod = "media-recorder",
                                       !.isCancelledRef = FALSE,
                                       !.abortControllerRef = Len(runs) + 1,
                                       !.gifInstanceRef = 0]
              id == FreshIdNot(RunIds)
          IN  IF recorded
              THEN /\ video' = Finally([SetIdle(started) EXCEPT
                                          !.videoUrl = "url",
                                          !.showVideoModal = TRUE])
                   /\ runs' = Append(runs, [NewRun("done") EXCEPT !.published = TRUE])
                   /\ timers' = timers
              ELSE IF frames = <<>>
              THEN /\ video' = Finally([started EXCEPT
                                          !.alerts = @ + 1,
                                          !.isGeneratingVideo = FALSE,
                                          !.videoMethod = "null"])
                   /\ runs' = Append(runs, [NewRun("done") EXCEPT !.alerted = TRUE])
                   /\ timers' = timers
              ELSE /\ video' = [started EXCEPT !.videoMethod = "ffmpeg",
                                               !.videoProgress = 10]
                   /\ runs' = Append(runs, [NewRun("fetch") EXCEPT
                                              !.progressInterval = id])
                   /\ timers' = setTimeout(timers, id, 300, "progress")
    /\ UNCHANGED notVideo

(* the progress interval ticks: part_008:744-754 *)
progressTick_P8 ==
    /\ component = "part_008"
    /\ \E r \in DOMAIN runs, t \in Pending("progress") :
          /\ t.id = runs[r].progressInterval
          /\ video' = IF ~video.isCancelledRef /\ runs[r].isGeneratingVideo
                      THEN [video EXCEPT !.videoProgress = Simulated(@)]
                      ELSE video
    /\ UNCHANGED <<notVideo, timers, runs>>

(* clearInterval(progressInterval): part_008:765 *)
clearInterval(ts, id) == {t \in ts : t.id # id}

(* the fetch of a run that was not aborted settles: part_008:756-812 *)
fetchSettled_P8 ==
    /\ component = "part_008"
    /\ \E r \in DOMAIN runs, answer \in Answers \ {"config"} :
          /\ runs[r].pc = "fetch"
          /\ IF answer = "network"
             THEN /\ OuterCatch(r)
                  /\ timers' = timers
             ELSE /\ timers' = clearInterval(timers, runs[r].progressInterval)
                  /\ IF video.isCancelledRef
                     THEN Returns(r)
                     ELSE IF answer = "video"
                     THEN /\ video' = [video EXCEPT !.videoProgress = 90]
                          /\ runs' = [runs EXCEPT ![r].pc = "blob", ![r].resp = answer]
                     ELSE /\ video' = video
                          /\ runs' = [runs EXCEPT ![r].pc = "json", ![r].resp = answer]
    /\ UNCHANGED notVideo

(* response.blob() settles: part_008:776-792 *)
blobSettled_P8 ==
    /\ component = "part_008"
    /\ \E r \in DOMAIN runs, ok \in BOOLEAN :
          /\ runs[r].pc = "blob"
          /\ IF ~ok
             THEN OuterCatch(r)
             ELSE IF video.isCancelledRef
                  THEN Returns(r)
                  ELSE /\ video' = Finally([SetIdle(video) EXCEPT
                                              !.videoUrl = "url",
                                              !.showVideoModal = TRUE])
                       /\ runs' = Published(r, runs)
    /\ UNCHANGED <<notVideo, timers>>

(* response.json() settles and the error is thrown: part_008:795-812 *)
jsonSettled_P8 ==
    /\ component = "part_008"
    /\ \E r \in DOMAIN runs :
          /\ runs[r].pc = "json"
          /\ OuterCatch(r)
    /\ UNCHANGED <<notVideo, timers>>

(* Video generation in the three components, on a board at rest that has
   recorded no frame, one or two *)
InitVideo ==
    /\ Mounted
    /\ component \in VideoComponents
    /\ frames \in {<<>>, <<Frame(canvas, StartTime - SampleEvery)>>,
                   <<Frame(canvas, StartTime - 2 * SampleEvery),
                     Frame(canvas, StartTime - SampleEvery)>>}

NextVideo ==
    \/ cancelVideoGeneration
    \/ generateVideo_PW \/ frameLoaded_PW \/ frameFailed_PW \/ frameShown_PW
    \/ recorderStopped_PW
    \/ generateVideo_WB \/ fetchSettled_WB \/ blobSettled_WB \/ jsonSettled_WB
    \/ importSettled_WB \/ gifFrameLoaded_WB \/ gifFrameFailed_WB
    \/ gifProgress_WB \/ gifFinished_WB
    \/ generateVideo_P8 \/ progressTick_P8 \/ fetchSettled_P8 \/ blobSettled_P8
    \/ jsonSettled_P8

SpecVideo == InitVideo /\ [][NextVideo]_vars

----------------------------------------------------------------------------
(* pollVideoStatus, src/app/api/nano-banana/route.ts:7-52 *)

MaxAttempts == 3

notPoll == <<component, now, ticks, isDrawing, dragStartTime, idleTimer,
             frameCaptureInterval, graceTimeout, timers, lastPoint,
             shouldCapture, lastCaptureTime, frames, canvas, captured,
             obs, board, conversation, video, runs>>

(* the head of the for loop, route.ts:13: the next request, or the timeout
   error of line 51 *)
Attempt(p, n) ==
    IF n < p.maxAttempts
    THEN [p EXCEPT !.attempt = n, !.pc = "fetch", !.sent = @ + 1,
                   !.caught = "none"]
    ELSE [p EXCEPT !.attempt = n, !.pc = "thrown", !.error = "timeout",
                   !.caught = "none"]

(* route.ts:7-24: the call, up to the first await *)
pollVideoStatus ==
    /\ poll.pc = "idle"
    /\ \E apiKey \in BOOLEAN, maxAttempts \in 1..MaxAttempts :
          poll' = IF ~apiKey
                  THEN [poll EXCEPT !.pc = "thrown", !.error = "not configured",
                                    !.maxAttempts = maxAttempts]
                  ELSE Attempt([poll EXCEPT !.maxAttempts = maxAttempts], 0)
    /\ UNCHANGED notPoll

(* the catch block, route.ts:42-48 *)
catchError(p, error) ==
    IF p.attempt = p.maxAttempts - 1
    THEN [p EXCEPT !.pc = "thrown", !.error = error]
    ELSE [p EXCEPT !.pc = "wait", !.caught = error]

(* the fetch of line 15 settles: it rejects, or answers not ok, or ok *)
statusFetched ==
    /\ poll.pc = "fetch"
    /\ \E outcome \in {"network", "not ok", "ok"} :
          poll' = IF outcome = "ok"
                  THEN [poll EXCEPT !.pc = "json"]
                  ELSE catchError([poll EXCEPT !.answers = Append(@, outcome)],
                                  outcome)
    /\ UNCHANGED notPoll

(* what statusData can be: success with status "completed", status "failed"
   (with or without an error text), another status; or json() rejects *)
StatusData == {"completed", "failed", "processing", "invalid"}

(* statusResponse.json() settles, route.ts:30-41 *)
statusParsed ==
    /\ poll.pc = "json"
    /\ \E data \in StatusData :
          LET p == [poll EXCEPT !.answers = Append(@, data)]
          IN  poll' = CASE data = "completed" -> [p EXCEPT !.pc = "returned"]
                        [] data = "failed" -> catchError(p, "failed")
                        [] data = "invalid" -> catchError(p, "invalid")
                        [] OTHER -> [p EXCEPT !.pc = "wait"]
    /\ UNCHANGED notPoll

(* the 2 s wait of line 41 or 47 is over: attempt++ *)
waited ==
    /\ poll.pc = "wait"
    /\ poll' = Attempt(poll, poll.attempt + 1)
    /\ UNCHANGED notPoll

InitPoll == Init /\ component \in {"part_008", "Whiteboard"}

NextPoll == pollVideoStatus \/ statusFetched \/ statusParsed \/ waited

SpecPoll == InitPoll /\ [][NextPoll]_vars

----------------------------------------------------------------------------
(* ProblemWorkspace.tsx alone: drawing, the clock and video generation *)
MaxVideos == 1

MaxWorkspaceTicks == 2

(* the clock is followed in steps of the idle delay and of the retention *)
WorkspaceSteps == {LongIdleDelay, Retention}

InitWorkspace == Init /\ component = "ProblemWorkspace"

NextWorkspace ==
    \/ startDrawing_PW /\ UNCHANGED still
    \/ draw_PW /\ UNCHANGED still
    \/ stopDrawing_PW /\ UNCHANGED still
    \/ idleTimerFired /\ UNCHANGED generation
    \/ clearCanvas
    \/ \E d \in WorkspaceSteps :
          Tick(d) /\ ticks < MaxWorkspaceTicks /\ UNCHANGED still
    \/ cancelVideoGeneration
    \/ generateVideo_PW /\ Len(runs) < MaxVideos
    \/ frameLoaded_PW \/ frameFailed_PW \/ frameShown_PW
    \/ recorderStopped_PW

SpecWorkspace == InitWorkspace /\ [][NextWorkspace]_vars

----------------------------------------------------------------------------
(* The answer of /api/solve to a capture *)

notConversation == <<component, now, ticks, isDrawing, dragStartTime, idleTimer,
                     frameCaptureInterval, graceTimeout, timers, lastPoint,
                     shouldCapture, lastCaptureTime, frames, canvas, captured,
                     board, generation>>

(* the request q is over *)
Settled(q, outcome) == (requests \ {q}) \cup {[q EXCEPT !.status = outcome]}

InFlightRequests == {q \in requests : q.status = "pending"}

(* the conversation without the message of capture q *)
Without(msgs, q) == SelectSeq(msgs, LAMBDA msg : msg.id # q.id)

(* Whiteboard.tsx:123-131, part_007:161-168: the reply is added *)
solveAnswered_WB ==
    /\ component \in {"Whiteboard", "part_007"}
    /\ \E q \in InFlightRequests :
          /\ messages' = Append(messages, Message("model", "data.text", now + 1))
          /\ requests' = Settled(q, "answered")
    /\ obs' = ObsOther(obs)
    /\ UNCHANGED <<notConversation, threads>>

(* Whiteboard.tsx:121 and 133-136, part_007:159 and 170-172: the request
   failed or the response is not ok; the catch logs the error *)
solveFailed_WB ==
    /\ component \in {"Whiteboard", "part_007"}
    /\ \E q \in InFlightRequests :
          /\ messages' = messages
          /\ requests' = Settled(q, "failed")
    /\ obs' = ObsOther(obs)
    /\ UNCHANGED <<notConversation, threads>>

(* the catch of part_008:423-448; quota: the error message names the quota *)
catch(q, quota) ==
    Append(IF quota THEN messages ELSE Without(messages, q),
           Message("model", "displayMessage", now + 1))

(* part_008:386-421: the response is ok; valid: data.text is there *)
solveAnswered_P8 ==
    /\ component = "part_008"
    /\ \E q \in InFlightRequests, valid \in BOOLEAN :
          IF valid
          THEN /\ messages' = Append(messages, Message("model", "data.text", now + 1))
               /\ requests' = Settled(q, "answered")
          ELSE /\ messages' = catch(q, FALSE)
               /\ requests' = Settled(q, "invalid")
    /\ obs' = ObsOther(obs)
    /\ UNCHANGED <<notConversation, threads>>

(* part_008:388-400 and 423-448: the request failed or the response is not ok *)
solveFailed_P8 ==
    /\ component = "part_008"
    /\ \E q \in InFlightRequests, quota \in BOOLEAN :
          /\ messages' = catch(q, quota)
          /\ requests' = Settled(q, "failed")
    /\ obs' = ObsOther(obs)
    /\ UNCHANGED <<notConversation, threads>>

(* newThread of page.tsx:51-61, ProblemWorkspace.tsx:51-58 *)
Thread(id) ==
    [id |-> id, snapshot |-> "imageData",
     messages |-> <<Message("model", "data.comment", id)>>,
     isResolved |-> FALSE, createdAt |-> id, unread |-> TRUE]

(* page.tsx:46-68, ProblemWorkspace.tsx:48-66: the response is ok;
   comment: data.comment is there *)
solveAnswered_page ==
    /\ component \in {"part_009", "ProblemWorkspace"}
    /\ \E q \in InFlightRequests, comment \in BOOLEAN :
          /\ threads' = IF comment THEN Append(threads, Thread(now)) ELSE threads
          /\ requests' = Settled(q, "answered")
    /\ obs' = ObsOther(obs)
    /\ UNCHANGED <<notConversation, messages>>

(* page.tsx:32-44 and 71-76, ProblemWorkspace.tsx:47 and 67-69 *)
solveFailed_page ==
    /\ component \in {"part_009", "ProblemWorkspace"}
    /\ \E q \in InFlightRequests :
          /\ threads' = threads
          /\ requests' = Settled(q, "failed")
    /\ obs' = ObsOther(obs)
    /\ UNCHANGED <<notConversation, messages>>

(* All the boards with the clock, and the tutor answering *)
NextTutor ==
    \/ Next
    \/ solveAnswered_WB \/ solveFailed_WB
    \/ solveAnswered_P8 \/ solveFailed_P8
    \/ solveAnswered_page \/ solveFailed_page

SpecTutor == Init /\ [][NextTutor]_vars

(* Whiteboard.tsx alone with the tutor answering, over a longer time *)
MaxChatTicks == 8

InitChat == Init /\ component = "Whiteboard"

NextChat ==
    \/ startDrawing_WB /\ UNCHANGED still
    \/ draw /\ UNCHANGED still
    \/ stopDrawing_WB /\ UNCHANGED still
    \/ captureAndSend /\ UNCHANGED generation
    \/ frameCaptureTick /\ UNCHANGED still
    \/ graceElapsed /\ UNCHANGED still
    \/ clearCanvas
    \/ Pass(CAPTURE_INTERVAL, MaxChatTicks) /\ UNCHANGED still
    \/ solveAnswered_WB \/ solveFailed_WB

SpecChat == InitChat /\ [][NextChat]_vars

----------------------------------------------------------------------------
(* Properties *)

Last(q) == q[Len(q)]

(* C1: a pointer-down that arrives while an idle-capture timer is pending
   cancels it: no timer that a pointer-down found pending is still pending
   afterwards, and none has ever fired *)
C1_PreemptedTimerNeverFires ==
    /\ ~obs.staleFired
    /\ \A t \in Pending("idle") : ~t.stale

(* a pointer-down pre-empted a timer, and the timer of the later pointer-up
   has fired since *)
C1_Witness ==
    /\ obs.preempted
    /\ obs.burstCalls = 1
    /\ captured # <<>>
    /\ Pending("idle") = {}

(* the boards whose pointer-up starts the idle timer whatever the stroke *)
Debounced == component \in {"part_007", "part_008", "ProblemWorkspace"}

(* C2: the idle capture is a debounce: at most one idle timer is pending;
   a burst of strokes, each pointer-down pre-empting the timer of the
   previous pointer-up, leads to at most one capture call, made no sooner
   than the idle delay after the last pointer-up, and to exactly one once the
   timer of the last pointer-up is no longer pending *)
C2_Debounce ==
    Debounced =>
        /\ Cardinality(Pending("idle")) <= 1
        /\ obs.burstCalls <= 1
        /\ ~obs.early
        /\ (obs.quiet /\ Pending("idle") = {}) => obs.burstCalls = 1

(* two strokes of ProblemWorkspace, the second begun before the timer of
   the first fired, then the pause: one call *)
C2_Witness ==
    /\ component = "ProblemWorkspace"
    /\ obs.preempted
    /\ obs.quiet
    /\ obs.sinceUp >= LongIdleDelay
    /\ Pending("idle") = {}
    /\ obs.burstCalls = 1

(* C3: in part_008, Whiteboard.tsx and ProblemWorkspace.tsx, immediately
   after every pointer-up that finalizes a stroke an idle timer is pending,
   whatever the stroke's duration *)
C3_PointerUpStartsTimer ==
    component \in {"part_008", "Whiteboard", "ProblemWorkspace"} =>
        (obs.justUp => Pending("idle") # {})

(* C4: in part_007 and Whiteboard.tsx, a single stroke, released, and no
   input since: once the idle delay has passed and no idle timer is left to
   run, exactly one capture call has been made, and its image is the canvas
   as it shows the finished stroke *)
C4_SingleStrokeOneCapture ==
    (/\ component \in {"part_007", "Whiteboard"}
     /\ obs.quiet
     /\ ~obs.preempted
     /\ obs.sinceUp >= IdleDelay
     /\ Pending("idle") = {})
    => /\ obs.burstCalls = 1
       /\ captured = <<canvas>>

(* C5: every frame of the buffer lies in the five minutes that end with
   the newest frame *)
C5_Retention ==
    \A i \in 1..Len(frames) :
        /\ Last(frames).timestamp - Retention < frames[i].timestamp
        /\ frames[i].timestamp <= Last(frames).timestamp

(* the last step appended a frame and discarded one older than the window *)
C5_Witness == obs.evicted /\ frames # <<>>

(* C6: any two frames of the buffer are at least CAPTURE_INTERVAL apart *)
C6_MinimumSpacing ==
    \A i, j \in 1..Len(frames) :
        i < j => frames[j].timestamp - frames[i].timestamp >= CAPTURE_INTERVAL

(* the grace period of Whiteboard.tsx is over: the pointer is up and the
   timeout of the isDrawing effect has run *)
GraceOver ==
    /\ component = "Whiteboard"
    /\ ~isDrawing
    /\ Pending("grace") = {}

(* C7: once the grace period is over the sampling interval is cleared, and
   no frame is appended until the next pointer-down *)
C7_SamplingStops ==
    /\ [](GraceOver => frameCaptureInterval = 0 /\ Pending("interval") = {})
    /\ [][GraceOver => frames' = frames \/ frames' = <<>>]_vars

(* a stroke was made and sampled, and the grace period after it is over *)
C7_Witness ==
    /\ GraceOver
    /\ obs.quiet
    /\ obs.sinceUp >= GraceDelay
    /\ frames # <<>>

(* C8: the frames of the buffer are in strictly increasing order of
   timestamp *)
C8_StrictOrder ==
    \A i, j \in 1..Len(frames) :
        i < j => frames[i].timestamp < frames[j].timestamp

(* this step appends a finished stroke *)
Finalizes == Len(strokes') = Len(strokes) + 1

(* C9: the stroke appended at the pointer-up of a down / move* / up
   sequence of one pointer has the points screenToWorld gives for the
   reported positions, in order, and at least one *)
C9_StrokeIsReportedPath ==
    [][(obs.single /\ Finalizes) =>
          /\ Last(strokes').points # <<>>
          /\ Last(strokes').points =
                [i \in 1..Len(obs.reported) |-> WorldOf(obs.reported[i])]]_vars

(* one pointer went down, moved and up under a zoomed transform *)
C9_Witness ==
    /\ obs.justUp
    /\ obs.single
    /\ Len(obs.reported) >= 2
    /\ strokes # <<>>
    /\ transform.scale \notin {R(0), R(1)}

(* this step is the touchstart of a second finger while a stroke is in
   progress *)
SecondPointerDown ==
    /\ touches = 1 /\ touches' = 2
    /\ isDrawing /\ currentStroke # <<>>

(* C10: a second finger going down during a stroke discards the stroke:
   the step leaves the finished strokes as they are, empties the stroke in
   progress and enters the gesture; and until a pointer-down begins another
   stroke, no step adds a stroke *)
C10_SecondPointerDiscards ==
    /\ [][SecondPointerDown =>
             /\ strokes' = strokes
             /\ currentStroke' = <<>>
             /\ isGesturing' /\ ~isDrawing'
             /\ obs'.discarded]_vars
    /\ [][obs.discarded => strokes' = strokes \/ strokes' = <<>>]_vars

(* the stroke was discarded and both fingers have been lifted since *)
C10_Witness ==
    /\ obs.discarded
    /\ touches = 0
    /\ ~mouseDown
    /\ ~isGesturing

(* C11: after one of the two gesture fingers lifts the board is idle and
   stays so: the moves of the finger that remains draw nothing and its lift
   adds no stroke, until all pointers have been up and a pointer goes down *)
C11_NoResumeAfterGesture ==
    /\ ~obs.resumed
    /\ (obs.lifted /\ ~mouseDown) => ~isDrawing /\ currentStroke = <<>>

(* C12: the scale of the transform is strictly positive *)
C12_ScalePositive == RPos(transform.scale)

(* this step is a touchmove of two fingers handled as a gesture *)
GestureMove ==
    /\ isGesturing /\ touches = 2
    /\ obs'.zooms = obs.zooms + 1 \/ obs'.skips = obs.skips + 1

(* the world point shown at the canvas point c under the transform tr *)
WorldUnder(c, tr) ==
    [x |-> RDiv(RSub(c.x, tr.x), tr.scale),
     y |-> RDiv(RSub(c.y, tr.y), tr.scale)]

(* C13: a gesture move with lastTouchDistance > 0 re-anchors the pan: the
   world point that was under the midpoint of the touches before the step
   is under their midpoint after it *)
C13_ReAnchoring ==
    [][(GestureMove /\ lastTouchDistance > 0) =>
          WorldUnder(lastTouchCenter, transform) =
              WorldUnder(lastTouchCenter', transform')]_vars

(* the midpoint of two touches, in canvas coordinates *)
CanvasCenter(e) ==
    [x |-> RSub(getTouchCenter(e[1], e[2]).x, R(rect.left)),
     y |-> RSub(getTouchCenter(e[1], e[2]).y, R(rect.top))]

(* C14: a gesture move that finds lastTouchDistance = 0 skips the zoom: the
   scale stays and the pan moves by the change of the centre only; every
   gesture move stores the new distance and centre, so that the next one,
   finding lastTouchDistance > 0, multiplies the scale by the ratio of the
   distances *)
C14_ZeroDistanceGuard ==
    [][GestureMove =>
          LET e == obs'.gesture
              dist == getTouchDistance(e[1], e[2])
              center == CanvasCenter(e)
          IN  /\ lastTouchDistance' = dist
              /\ lastTouchCenter' = center
              /\ lastTouchDistance = 0 =>
                    /\ transform'.scale = transform.scale
                    /\ transform'.x = RAdd(transform.x, RSub(center.x, lastTouchCenter.x))
                    /\ transform'.y = RAdd(transform.y, RSub(center.y, lastTouchCenter.y))
              /\ lastTouchDistance > 0 =>
                    transform'.scale =
                        RMul(transform.scale, Rat(dist, lastTouchDistance))]_vars

(* one gesture, begun with both fingers on one spot: its first move was
   skipped and its second zoomed *)
C14_Witness ==
    /\ obs.downs = 2
    /\ obs.skips = 1
    /\ obs.zooms = 1
    /\ transform.scale \notin {R(0), R(1)}

(* C15: the transform changes only in a touchmove of two fingers handled
   as a gesture; every other event leaves pan and scale as they are *)
C15_TransformOnlyInGesture == [][transform' # transform => GestureMove]_vars

(* two fingers changed the view, their gesture is over, and a stroke of a
   later pointer was finished without the view changing *)
C15_Witness ==
    /\ transform # Identity
    /\ ~isGesturing
    /\ touches = 0
    /\ obs.downs >= 3
    /\ strokes # <<>>

(* C16: the finished strokes are append-only but for the bulk clear: a
   step leaves the list as it is, or appends the stroke in progress at its
   end, the strokes already there unchanged, or empties it *)
C16_StrokesAppendOnly ==
    [][\/ strokes' = strokes
       \/ strokes' = <<>>
       \/ /\ currentStroke # <<>>
          /\ strokes' = Append(strokes, currentStroke[1])]_vars

(* a stroke was appended to a list that held one already *)
C16_Witness == Len(strokes) = 2 /\ obs.justUp

(* the generation-progress state is idle *)
VideoIdle ==
    /\ ~video.isGeneratingVideo
    /\ video.videoProgress = 0
    /\ video.videoMethod = "null"

(* C17: once cancelVideoGeneration was called during a running generation,
   and until generateVideo is called again, the generation-progress state is
   idle: no later callback of the cancelled run changes it. *)
C17_CancelledStaysIdle ==
    (runs # <<>> /\ Last(runs).cancelled) => VideoIdle

(* C18: a video generation leaves no dangling timer: every interval or
   timeout that generateVideo started and that is still pending belongs to a
   run that has not returned yet, whether the run completed, failed or was
   aborted by cancelVideoGeneration. *)
C18_NoDanglingTimer ==
    /\ \A t \in Pending("progress") :
          \E r \in DOMAIN runs : InFlight(r) /\ runs[r].progressInterval = t.id
    /\ Cardinality(Pending("frame")) =
          Cardinality({r \in DOMAIN runs : runs[r].pc = "waiting"})

(* C19: cancellation is a normal termination: a run of generateVideo during
   which cancelVideoGeneration was called shows no failure message, on
   whichever path it ends. *)
C19_CancelledRunNeverAlerts ==
    \A r \in DOMAIN runs : runs[r].cancelled => ~runs[r].alerted

(* this step is the failure of the tutoring request q *)
FailedNow(q) ==
    q.status = "pending" /\ [q EXCEPT !.status = "failed"] \in requests'

(* C20: when a tutoring request fails, local state is left as it was before
   the capture was sent: the conversation is afterwards what it was without
   that capture (no message of it, no reply, no thread), and what schedules
   the captures of later strokes is untouched. *)
C20_FailureLeavesConversation ==
    [][\A q \in requests : FailedNow(q) =>
          /\ messages' = Without(messages, q)
          /\ threads' = threads
          /\ UNCHANGED <<idleTimer, timers, isDrawing, dragStartTime>>]_vars

(* C21: video assembly never mutates the Frame Buffer: no step of
   generateVideo or of its callbacks changes frames, and what a run hands to
   the encoder is the buffer as it was at the call, in buffer order, followed
   by exactly one final frame taken from the current canvas. *)
C21_AssemblyLeavesBuffer ==
    [][/\ frames' = frames
       /\ (Len(runs') > Len(runs) /\ runs'[Len(runs')].pc # "done") =>
             LET handed == runs'[Len(runs')].allFrames
             IN  /\ Len(handed) = Len(frames) + 1
                 /\ SubSeq(handed, 1, Len(frames)) = frames
                 /\ handed[Len(handed)].imageData = canvas]_vars

C21_Witness ==
    \E r \in DOMAIN runs : Len(runs[r].allFrames) = 3 /\ runs[r].pc = "done"

(* the finished drawing an image shows *)
Drawing(image) == IF component = "part_007" THEN image.strokes ELSE image

(* the finished drawing of the last capture sent, the blank board if none *)
LastSent ==
    IF captured # <<>> THEN Drawing(captured[1])
    ELSE IF component = "part_007" THEN <<>> ELSE 0

(* C22: in part_007 and Whiteboard.tsx no finished work is left uncaptured:
   whenever the finished drawing differs from the one of the last capture
   sent and no pointer is down, an idle-capture timer is pending, also after
   a two-finger gesture or a short stroke that followed the stroke whose
   capture was pending. *)
C22_NoWorkLeftUncaptured ==
    (/\ component \in {"part_007", "Whiteboard"}
     /\ ~isDrawing /\ NoPointer
     /\ Drawing(canvas) # LastSent)
    => Pending("idle") # {}

(* C23: a cancelled generation never publishes a result: a run of
   generateVideo during which cancelVideoGeneration was called does not set
   videoUrl (nor, with it, open the video modal or advance
   lastVideoFrameCountRef), even when generateVideo was called again before
   the callbacks of the cancelled run ran. *)
C23_CancelledRunNeverPublishes ==
    \A r \in DOMAIN runs : runs[r].cancelled => ~runs[r].published

(* C24: while a run of generateVideo has its request in flight,
   abortControllerRef holds that run's AbortController, so that
   cancelVideoGeneration aborts the request of the most recently started
   run: the finally block of an earlier run that returns late neither clears
   nor replaces the controller of a later run. *)
C24_ControllerOfRequestInFlight ==
    \A r \in DOMAIN runs :
        (r = Len(runs) /\ runs[r].pc \in {"fetch", "blob", "json"})
        => video.abortControllerRef = r

(* C25: generateVideo of ProblemWorkspace.tsx refuses ("No new drawing since
   last video") exactly when the Frame Buffer holds no frame appended since
   the last successfully generated video: with a frame in the buffer that
   the last video did not have, also after the five-minute eviction has
   shortened the buffer, it proceeds. *)
NewSince ==
    \E i \in DOMAIN frames :
        \A j \in DOMAIN video.lastVideoFrames :
            frames[i] # video.lastVideoFrames[j]

C25_RefusesOnlyWithoutNewFrames ==
    (component = "ProblemWorkspace" /\ frames # <<>>)
    => (NoNewDrawing <=> ~NewSince)

(* C26: when a stroke ends a final frame is captured: every stopDrawing of
   part_009 and ProblemWorkspace.tsx that ends a stroke appends to the Frame
   Buffer one frame that shows the canvas with the completed stroke, whatever
   the time since the previous capture. *)
StrokeEnds ==
    component \in {"part_009", "ProblemWorkspace"} /\ isDrawing /\ ~isDrawing'

C26_FinalFrameOnStrokeEnd ==
    [][StrokeEnds => frames' = AppendFrame(frames, canvas, now)]_vars

(* C27: in Whiteboard.tsx at most one frame-sampling interval exists at any
   time, and frameCaptureInterval holds it.  It runs while a stroke is in
   progress and through the grace period after the last pointer-up: each of
   its ticks appends one frame, it goes away only when the 2 s timeout set
   at the pointer-up fires, and a pointer-down that finds it running leaves
   it as it is, starting no second one. *)
Sampling == Pending("interval")

Ticked ==
    \E t \in Sampling : [t EXCEPT !.at = t.at + SampleEvery] \in timers' \ timers

GraceFires == \E t \in Pending("grace") : Due(t) /\ t \notin timers'

C27_OneSamplingInterval ==
    /\ [](component = "Whiteboard" =>
            /\ Cardinality(Sampling) <= 1
            /\ \A t \in Sampling : t.id = frameCaptureInterval
            /\ isDrawing => Sampling # {})
    /\ [][(component = "Whiteboard") =>
            /\ Ticked => frames' = AppendFrame(frames, canvas, now)
            /\ (Sampling # {} /\ Sampling' = {}) => (~isDrawing /\ GraceFires)
            /\ (Sampling # {} /\ ~isDrawing /\ isDrawing') => Sampling' = Sampling]_vars

(* a pointer went down within a second of the last pointer-up, the interval
   runs and has sampled *)
C27_Witness ==
    /\ component = "Whiteboard"
    /\ isDrawing
    /\ obs.preempted
    /\ Cardinality(Sampling) = 1
    /\ frames # <<>>

(* C28: on the vector board of part_007, isDrawing and isGesturing are
   never both true, whatever the sequence of mouse and touch events. *)
C28_DrawingExcludesGesturing ==
    component = "part_007" => ~(isDrawing /\ isGesturing)

(* C29: the history sent with an idle capture of Whiteboard.tsx holds the
   conversation as it stands when the capture fires: every message appended
   before the timer fires, a tutor reply that arrived after the pointer-up
   that scheduled the capture included, is in the history of the request, in
   order. *)
RECURSIVE SubsequenceOf(_, _)
SubsequenceOf(a, b) ==
    IF a = <<>> THEN TRUE
    ELSE IF b = <<>> THEN FALSE
    ELSE IF Head(a) = Head(b) THEN SubsequenceOf(Tail(a), Tail(b))
    ELSE SubsequenceOf(a, Tail(b))

(* the requests this step sends *)
Sent == {q \in requests' \ requests : q.status = "pending"}

C29_HistoryIsCurrent ==
    [][(component = "Whiteboard") =>
          \A q \in Sent : SubsequenceOf(messages, q.history)]_vars

(* C30: pollVideoStatus stops polling as soon as the status endpoint
   reports the status "failed": it throws the reported failure right after
   that response and sends no further status request. *)
ReportedFailed == \E i \in DOMAIN poll.answers : poll.answers[i] = "failed"

C30_FailedStopsPolling ==
    ReportedFailed =>
        /\ poll.pc = "thrown"
        /\ poll.error = "failed"
        /\ Last(poll.answers) = "failed"
        /\ poll.sent = Len(poll.answers)

====
